---- MODULE Spec2Model ----
(***************************************************************************)
(* State-machine model of the OracleIntentContract of                      *)
(* contracts/oracle-intent/src/lib.rs.                                     *)
(*                                                                         *)
(* Units.  The unit of Balance is scaled so that MIN_STAKE (10^24          *)
(* yoctoNEAR in the source) is 1: a cast `as Balance` truncates to a whole *)
(* number of these units.  Block timestamps are counted in hours              *)
(* (challenge_period, 86_400_000_000_000 ns in the source, is 24 here; the *)
(* default deadline of 60 minutes is 1).  Execution times stay in          *)
(* milliseconds.  f64 values are exact rationals <<numerator,              *)
(* denominator>>; a cast `as Balance` is the floor of the rational.  A     *)
(* cast of a Balance `as f64` rounds it to the significand of an f64, to   *)
(* nearest, ties to even: an f64 keeps 53 of the bits of a u128, and with  *)
(* the Balance unit scaled the model keeps F64_DIGITS of them.             *)
(*                                                                         *)
(* Identifiers.  format!("intent_{}", n), format!("eval_{}", n) and        *)
(* format!("challenge_{}", n) are injective in n within their family and   *)
(* each family has its own map, so an id is modelled by its number n.      *)
(*                                                                         *)
(* Every public method is one atomic step.  A failed require!/expect/      *)
(* panic aborts the method call: the host discards every write and every   *)
(* scheduled transfer of the call, and the attached deposit goes back to   *)
(* the caller.  Such a call leaves every variable as it was.               *)
(***************************************************************************)
EXTENDS Integers, Sequences, FiniteSets, TLC

\* ------------------------------------------------------------------ bounds
MaxCalls == 6        \* calls that return (do not panic) in one behaviour
MaxDeepCalls == 8    \* the same, in the behaviours of SpecDeep
MaxLiveIntents == 1  \* intents created in one behaviour of SpecLive

\* ------------------------------------------------------- program constants
MIN_STAKE == 1
CHALLENGE_PERIOD == 24
DEFAULT_DEADLINE_MINUTES == 60
MINUTES_PER_HOUR == 60
MAX_SOURCES_PER_EVALUATION == 15
HIGH_VALUE_FACTOR == 5

Owner == "owner"
Accounts == {"owner", "alice"}

\* Block timestamps the clock takes: the start, the last instant of the
\* challenge period of an evaluation submitted at the start, and the first
\* instant after it.
Instants == {0, CHALLENGE_PERIOD, CHALLENGE_PERIOD + 1}

\* Inputs of the calls.
None == <<>>                           \* Option: None is <<>>, Some(x) is <<x>>
EvaluationDeposits == {0, MIN_STAKE}   \* attached to submit_evaluation
ChallengeDeposits == {0, MIN_STAKE, MIN_STAKE + 1}   \* attached to submit_challenge
IntentDeposits == {0, MIN_STAKE + 1}   \* attached to submit_credibility_intent
SolverDeposits == {0, MIN_STAKE}       \* attached to register_solver
Initiators == {"alice"}                \* callers of submit_credibility_intent
DeadlineMinutes == {None, <<0>>}
ExecTimes == {0, 90000}
Confidences == {<<9, 10>>}
SourceCounts == {1}
RetentionDays == {0, 1}
Winners == {"evaluator", "challenger", "tie", "nobody"}
UserRoles == {"User", "Verifier", "Admin"}
MaxOperations == {0, 2}                \* max_operations of batch_process_expired_and_cleanup
RewardPools == {0, 3, 11}              \* total_reward_pool of distribute_performance_rewards

\* ---------------------------------------------------------------- rationals
Abs(x) == IF x < 0 THEN -x ELSE x

RECURSIVE Gcd(_, _)
Gcd(a, b) == IF b = 0 THEN a ELSE Gcd(b, a % b)

Norm(n, d) ==
  LET g == Gcd(Abs(n), Abs(d))
      s == IF d < 0 THEN -1 ELSE 1
  IN  <<(s * n) \div g, (s * d) \div g>>

RInt(n) == <<n, 1>>
RAdd(x, y) == Norm(x[1] * y[2] + y[1] * x[2], x[2] * y[2])
RSub(x, y) == Norm(x[1] * y[2] - y[1] * x[2], x[2] * y[2])
RMul(x, y) == Norm(x[1] * y[1], x[2] * y[2])
RDiv(x, y) == Norm(x[1] * y[2], x[2] * y[1])
RLt(x, y) == x[1] * y[2] < y[1] * x[2]
RLe(x, y) == x[1] * y[2] <= y[1] * x[2]
\* `x as Balance` for a non-negative f64: truncation.
AsBalance(x) == IF x[1] <= 0 THEN 0 ELSE x[1] \div x[2]

\* Bits of the significand that `as f64` keeps of a Balance.
F64_DIGITS == 3

RECURSIVE BitLength(_)
BitLength(n) == IF n = 0 THEN 0 ELSE 1 + BitLength(n \div 2)

\* `n as f64` for a Balance n: the nearest value with F64_DIGITS significant
\* bits, the one with the even significand when n is halfway between two.
as_f64(n) ==
  IF BitLength(n) <= F64_DIGITS THEN RInt(n)
  ELSE LET ulp == 2 ^ (BitLength(n) - F64_DIGITS)
           q == n \div ulp
           r == n % ulp
       IN  IF 2 * r < ulp \/ (2 * r = ulp /\ q % 2 = 0)
           THEN RInt(q * ulp)
           ELSE RInt((q + 1) * ulp)

VARIABLES
  intents,             \* UnorderedMap intent id -> OracleIntent
  evaluations,         \* UnorderedMap evaluation id -> OracleEvaluation
  challenges,          \* UnorderedMap challenge id -> RefutationChallenge
  solvers,             \* LookupMap account -> OracleSolver
  solver_stakes,       \* LookupMap account -> Balance
  users,               \* LookupMap account -> UserProfile
  admins,              \* Vector of accounts
  verifiers,           \* Vector of accounts
  intent_counter,
  evaluation_counter,
  challenge_counter,
  now,                 \* env::block_timestamp()
  escrowed,            \* history: stake attached by accepted create/evaluate/challenge calls
  paid,                \* history: sum of all transfer_reward amounts
  settles,             \* history: evaluation id -> successful settle_dispute calls on it
  finalizes,           \* history: evaluation id -> finalize_evaluation_reward calls that returned
  refunds,             \* history: intent id -> stake refunds by process_expired_intents
  calls,               \* history: calls that returned
  last                 \* history: the last call, its outcome and its transfers

contract == <<intents, evaluations, challenges, solvers, solver_stakes, users,
              admins, verifiers, intent_counter, evaluation_counter, challenge_counter>>
ledger == <<escrowed, paid, settles, finalizes, refunds>>
history == <<escrowed, paid, settles, finalizes, refunds, calls, last>>
vars == <<intents, evaluations, challenges, solvers, solver_stakes, users,
          admins, verifiers, intent_counter, evaluation_counter, challenge_counter,
          now, escrowed, paid, settles, finalizes, refunds, calls, last>>

\* Ids a caller may name: those allocated so far and one that is not.
IntentIds == 1..(intent_counter + 1)
EvaluationIds == 1..(evaluation_counter + 1)
ChallengeIds == 1..(challenge_counter + 1)

EmptyMap == [x \in {} |-> 0]

\* The map m with key k set to v (insert) and with key k removed (remove).
Insert(m, k, v) == [x \in DOMAIN m \cup {k} |-> IF x = k THEN v ELSE m[x]]
Remove(m, ks) == [x \in DOMAIN m \ ks |-> m[x]]

\* The counting map m with the count of every key of ks raised by one.
Bump(m, ks) ==
  [x \in DOMAIN m \cup ks |->
     (IF x \in DOMAIN m THEN m[x] ELSE 0) + (IF x \in ks THEN 1 ELSE 0)]

RECURSIVE SumAmounts(_)
SumAmounts(ts) == IF ts = <<>> THEN 0 ELSE Head(ts).amount + SumAmounts(Tail(ts))

RECURSIVE Received(_, _)
Received(ts, a) ==
  IF ts = <<>> THEN 0
  ELSE (IF Head(ts).to = a THEN Head(ts).amount ELSE 0) + Received(Tail(ts), a)

\* Promise::new(recipient).transfer(amount), appended to the call's transfers.
transfer_reward(ts, recipient, amount) == Append(ts, [to |-> recipient, amount |-> amount])

\* The record of a call that returned: the method, the ids it worked on (its
\* arguments and the id it allocated), the winner argument, its transfers and
\* the block timestamp it ran at.
Call(op, id1, id2, winner, transfers, at) ==
  [op |-> op, id1 |-> id1, id2 |-> id2, winner |-> winner, transfers |-> transfers,
   at |-> at]

\* A call that returns.
Return(op, id1, id2, winner, transfers) ==
  /\ last' = Call(op, id1, id2, winner, transfers, now)
  /\ calls' = calls + 1

\* A call that panics: nothing of it persists.
Reject == UNCHANGED vars

Init ==
  /\ intents = EmptyMap
  /\ evaluations = EmptyMap
  /\ challenges = EmptyMap
  /\ solvers = EmptyMap
  /\ solver_stakes = EmptyMap
  /\ users = EmptyMap
  /\ admins = <<>>
  /\ verifiers = <<>>
  /\ intent_counter = 0
  /\ evaluation_counter = 0
  /\ challenge_counter = 0
  /\ now = 0
  /\ escrowed = 0
  /\ paid = 0
  /\ settles = EmptyMap
  /\ finalizes = EmptyMap
  /\ refunds = EmptyMap
  /\ calls = 0
  /\ last = Call("new", 0, 0, "", <<>>, 0)

\* ---------------------------------------------------------------- the ids
\* self.intent_counter += 1 (likewise evaluation_counter, challenge_counter):
\* the id of a new entity is its family's counter after the increment.
next_id_unchanged(counter) == counter

next_id(counter) == counter + 1

\* ------------------------------------------------------------ the solvers
\* OracleSolver with its SolverPerformanceMetrics inlined (uptime_score and
\* specialization_areas, which no method reads, and last_active_timestamp,
\* which the methods only write, left out).
NewSolver(stake, t) ==
  [reputation_score |-> <<1, 1>>,
   total_evaluations |-> 0,
   successful_evaluations |-> 0,
   total_stake |-> stake,
   is_active |-> TRUE,
   average_execution_time |-> <<0, 1>>,
   average_confidence_score |-> <<0, 1>>,
   average_source_count |-> <<0, 1>>,
   total_challenges_received |-> 0,
   challenges_successfully_defended |-> 0,
   total_rewards_earned |-> 0,
   total_stakes_lost |-> 0]

\* A reputation update that never counts a success.
update_solver_reputation_nosuccess(sv, solver_id, success, t) ==
  IF solver_id \notin DOMAIN sv THEN sv
  ELSE LET s == sv[solver_id]
           total == s.total_evaluations + 1
       IN  [sv EXCEPT ![solver_id] =
              [s EXCEPT !.total_evaluations = total,
                        !.reputation_score = Norm(s.successful_evaluations, total)]]

\* A reputation update that computes the score before it counts the success.
update_solver_reputation_stale(sv, solver_id, success, t) ==
  IF solver_id \notin DOMAIN sv THEN sv
  ELSE LET s == sv[solver_id]
           total == s.total_evaluations + 1
           succ == s.successful_evaluations + (IF success THEN 1 ELSE 0)
       IN  [sv EXCEPT ![solver_id] =
              [s EXCEPT !.total_evaluations = total,
                        !.successful_evaluations = succ,
                        !.reputation_score = Norm(s.successful_evaluations, total)]]

update_solver_reputation(sv, solver_id, success, t) ==
  IF solver_id \notin DOMAIN sv THEN sv
  ELSE LET s == sv[solver_id]
           total == s.total_evaluations + 1
           succ == s.successful_evaluations + (IF success THEN 1 ELSE 0)
       IN  [sv EXCEPT ![solver_id] =
              [s EXCEPT !.total_evaluations = total,
                        !.successful_evaluations = succ,
                        !.reputation_score = Norm(succ, total)]]

\* The incremental mean of the source, with n = total_evaluations.
running_average(avg, n, x) ==
  IF n > 0 THEN RDiv(RAdd(RMul(avg, RInt(n - 1)), x), RInt(n)) ELSE x

update_solver_performance_metrics(sv, solver_id, execution_time_ms, confidence, source_count, reward_amount, t) ==
  IF solver_id \notin DOMAIN sv THEN sv
  ELSE LET s == sv[solver_id]
           n == s.total_evaluations
       IN  [sv EXCEPT ![solver_id] =
              [s EXCEPT
                 !.average_execution_time =
                     running_average(s.average_execution_time, n, RInt(execution_time_ms)),
                 !.average_confidence_score =
                     running_average(s.average_confidence_score, n, confidence),
                 !.average_source_count =
                     running_average(s.average_source_count, n, RInt(source_count)),
                 !.total_rewards_earned = @ + reward_amount]]

\* A challenge-metrics update that counts every challenge as defended.
update_solver_challenge_metrics_alldefended(sv, solver_id, challenge_defended) ==
  IF solver_id \notin DOMAIN sv THEN sv
  ELSE [sv EXCEPT ![solver_id] =
          [@ EXCEPT !.total_challenges_received = @ + 1,
                    !.challenges_successfully_defended = @ + 1]]

update_solver_challenge_metrics(sv, solver_id, challenge_defended) ==
  IF solver_id \notin DOMAIN sv THEN sv
  ELSE [sv EXCEPT ![solver_id] =
          [@ EXCEPT !.total_challenges_received = @ + 1,
                    !.challenges_successfully_defended =
                        @ + (IF challenge_defended THEN 1 ELSE 0)]]

\* An owner check that lets every account through.
assert_owner_anyone(caller) == TRUE

assert_owner(caller) == caller = Owner

assert_admin_or_owner(caller) ==
  caller = Owner \/ \E k \in DOMAIN admins : admins[k] = caller

\* --------------------------------------------------------------- register_user
\* UserProfile (registration_date, which the methods only write, left out).
NewUser(role, t) ==
  [role |-> role,
   is_verified |-> FALSE,
   verification_level |-> 0,
   total_intents_created |-> 0,
   total_stake_committed |-> 0]

\* What a call that panics leaves of a state it wrote before the panic, when
\* the write is kept.
rollback_keepwrites(before, written) == written

\* What a call that panics leaves of a state it wrote before the panic: the
\* host discards the writes, the state is the one before the call.
rollback(before, written) == before

\* The role check of the match on role.
register_user_role_ok(caller, role) ==
  /\ role = "Admin" => assert_owner(caller)
  /\ role = "Verifier" => assert_admin_or_owner(caller)

register_user_ok(caller, role) ==
  /\ caller \notin DOMAIN users
  /\ register_user_role_ok(caller, role)

\* The method inserts the profile and then checks the role: a failed role
\* check panics after the insert.
RegisterUser(caller, role) ==
  IF caller \in DOMAIN users
  THEN Reject
  ELSE LET inserted == Insert(users, caller, NewUser(role, now)) IN
       IF ~register_user_role_ok(caller, role)
       THEN /\ users' = rollback(users, inserted)
            /\ UNCHANGED <<intents, evaluations, challenges, solvers, solver_stakes,
                           admins, verifiers, intent_counter, evaluation_counter,
                           challenge_counter, now, history>>
       ELSE /\ users' = inserted
            /\ admins' = IF role = "Admin" THEN Append(admins, caller) ELSE admins
            /\ verifiers' = IF role = "Verifier" THEN Append(verifiers, caller)
                            ELSE verifiers
            /\ Return("register_user", 0, 0, "", <<>>)
            /\ UNCHANGED <<intents, evaluations, challenges, solvers, solver_stakes,
                           intent_counter, evaluation_counter, challenge_counter, now,
                           ledger>>

\* ------------------------------------------------------------ register_solver
RegisterSolver(caller, stake) ==
  IF ~(stake >= MIN_STAKE)
  THEN Reject
  ELSE /\ solvers' = Insert(solvers, caller, NewSolver(stake, now))
       /\ solver_stakes' = Insert(solver_stakes, caller, stake)
       /\ Return("register_solver", 0, 0, "", <<>>)
       /\ UNCHANGED <<intents, evaluations, challenges, users, admins, verifiers, intent_counter,
                      evaluation_counter, challenge_counter, now, ledger>>

\* ------------------------------------------------- submit_credibility_intent
unwrap_or(option, default) == IF option = None THEN default ELSE option[1]

\* now + deadline_minutes * 60 * 1_000_000_000, in hours (the inputs are
\* whole hours).
intent_deadline(t, deadline_minutes) ==
  t + (unwrap_or(deadline_minutes, DEFAULT_DEADLINE_MINUTES) \div MINUTES_PER_HOUR)

SubmitCredibilityIntent(caller, stake, question_ok, deadline_minutes) ==
  IF ~(stake >= MIN_STAKE) \/ ~question_ok
  THEN Reject
  ELSE LET id == next_id(intent_counter)
           intent == [initiator |-> caller,
                      evaluation_hash |-> 0,
                      stake |-> stake,
                      reward |-> stake,
                      deadline |-> intent_deadline(now, deadline_minutes),
                      status |-> "Pending",
                      created_at |-> now]
       IN  /\ intent_counter' = id
           /\ intents' = Insert(intents, id, intent)
           /\ escrowed' = escrowed + stake
           /\ Return("submit_credibility_intent", id, 0, "", <<>>)
           /\ UNCHANGED <<evaluations, challenges, solvers, solver_stakes, users, admins, verifiers,
                          evaluation_counter, challenge_counter, now, paid, settles, finalizes, refunds>>

\* -------------------------------------------------------------- accept_intent
AcceptableStatus(status) == status = "Pending"

accept_intent_ok(caller, intent_id) ==
  /\ caller \in DOMAIN solvers
  /\ solvers[caller].is_active
  /\ intent_id \in DOMAIN intents
  /\ AcceptableStatus(intents[intent_id].status)
  /\ now <= intents[intent_id].deadline
  /\ (intents[intent_id].reward > HIGH_VALUE_FACTOR * MIN_STAKE
        => RLe(<<7, 10>>, solvers[caller].reputation_score))

AcceptIntent(caller, intent_id) ==
  IF ~accept_intent_ok(caller, intent_id)
  THEN Reject
  ELSE /\ intents' = [intents EXCEPT ![intent_id].status = "InProgress"]
       /\ Return("accept_intent", intent_id, 0, "", <<>>)
       /\ UNCHANGED <<evaluations, challenges, solvers, solver_stakes, users, admins, verifiers,
                      intent_counter, evaluation_counter, challenge_counter, now, ledger>>

\* -------------------------------------------------- complete_intent_execution
complete_intent_ok(caller, intent_id, evaluation_id) ==
  /\ intent_id \in DOMAIN intents
  /\ intents[intent_id].status = "InProgress"
  /\ evaluation_id \in DOMAIN evaluations
  /\ evaluations[evaluation_id].solver = caller
  /\ evaluations[evaluation_id].intent_id = intent_id

CompleteIntentExecution(caller, intent_id, evaluation_id) ==
  IF ~complete_intent_ok(caller, intent_id, evaluation_id)
  THEN Reject
  ELSE LET intent == intents[intent_id] IN
       /\ intents' = [intents EXCEPT ![intent_id].status = "Completed",
                                     ![intent_id].evaluation_hash = evaluation_id]
       /\ users' = IF intent.initiator \in DOMAIN users
                   THEN [users EXCEPT
                           ![intent.initiator].total_intents_created = @ + 1,
                           ![intent.initiator].total_stake_committed = @ + intent.stake]
                   ELSE users
       /\ Return("complete_intent_execution", intent_id, evaluation_id, "", <<>>)
       /\ UNCHANGED <<evaluations, challenges, solvers, solver_stakes, admins, verifiers,
                      intent_counter, evaluation_counter, challenge_counter, now, ledger>>

\* ----------------------------------------------------------- submit_evaluation
\* A status check that also admits an intent that already has an evaluation.
EvaluableStatus_inprogress(status) == status \in {"Pending", "InProgress"}

EvaluableStatus(status) == status = "Pending"

submit_evaluation_ok(caller, solver_stake, intent_id, confidence, n_sources) ==
  /\ solver_stake >= MIN_STAKE
  /\ RLe(<<0, 1>>, confidence) /\ RLe(confidence, <<1, 1>>)
  /\ n_sources > 0
  /\ n_sources <= MAX_SOURCES_PER_EVALUATION
  /\ intent_id \in DOMAIN intents
  /\ EvaluableStatus(intents[intent_id].status)
  /\ now <= intents[intent_id].deadline
  /\ caller \in DOMAIN solvers

SubmitEvaluation(caller, solver_stake, intent_id, confidence, n_sources, execution_time_ms) ==
  IF ~submit_evaluation_ok(caller, solver_stake, intent_id, confidence, n_sources)
  THEN Reject
  ELSE LET id == next_id(evaluation_counter)
           evaluation == [intent_id |-> intent_id,
                          solver |-> caller,
                          confidence |-> confidence,
                          n_sources |-> n_sources,
                          execution_time |-> execution_time_ms,
                          stake |-> solver_stake,
                          status |-> "Submitted",
                          submitted_at |-> now]
       IN  /\ evaluation_counter' = id
           /\ evaluations' = Insert(evaluations, id, evaluation)
           /\ intents' = [intents EXCEPT ![intent_id].status = "InProgress",
                                         ![intent_id].evaluation_hash = id]
           /\ escrowed' = escrowed + solver_stake
           /\ Return("submit_evaluation", intent_id, id, "", <<>>)
           /\ UNCHANGED <<challenges, solvers, solver_stakes, users, admins, verifiers, intent_counter,
                          challenge_counter, now, paid, settles, finalizes, refunds>>

\* ------------------------------------------------------------ submit_challenge
\* A stake check that admits an equal stake.
ChallengeStakeOk_equal(challenge_stake, evaluation_stake) ==
  challenge_stake >= evaluation_stake

ChallengeStakeOk(challenge_stake, evaluation_stake) == challenge_stake > evaluation_stake

\* A status check that admits an evaluation already challenged.
ChallengeableStatus_challenged(status) == status \in {"Submitted", "Challenged"}

ChallengeableStatus(status) == status = "Submitted"

submit_challenge_ok(challenge_stake, evaluation_id, n_sources) ==
  /\ evaluation_id \in DOMAIN evaluations
  /\ ChallengeStakeOk(challenge_stake, evaluations[evaluation_id].stake)
  /\ n_sources > 0
  /\ ChallengeableStatus(evaluations[evaluation_id].status)
  /\ now <= evaluations[evaluation_id].submitted_at + CHALLENGE_PERIOD

SubmitChallenge(caller, challenge_stake, evaluation_id, n_sources) ==
  IF ~submit_challenge_ok(challenge_stake, evaluation_id, n_sources)
  THEN Reject
  ELSE LET id == next_id(challenge_counter)
           challenge == [evaluation_id |-> evaluation_id,
                         challenger |-> caller,
                         stake |-> challenge_stake,
                         status |-> "Submitted",
                         submitted_at |-> now]
       IN  /\ challenge_counter' = id
           /\ challenges' = Insert(challenges, id, challenge)
           /\ evaluations' = [evaluations EXCEPT ![evaluation_id].status = "Challenged"]
           /\ escrowed' = escrowed + challenge_stake
           /\ Return("submit_challenge", evaluation_id, id, "", <<>>)
           /\ UNCHANGED <<intents, solvers, solver_stakes, users, admins, verifiers, intent_counter,
                          evaluation_counter, now, paid, settles, finalizes, refunds>>

\* -------------------------------------------------------------- settle_dispute
ValidWinner(winner) == winner \in {"evaluator", "challenger", "tie"}

SettleableStatus(status) == status = "Challenged"

settle_dispute_ok(caller, evaluation_id, challenge_id, winner) ==
  /\ assert_owner(caller)
  /\ evaluation_id \in DOMAIN evaluations
  /\ challenge_id \in DOMAIN challenges
  /\ SettleableStatus(evaluations[evaluation_id].status)
  /\ ValidWinner(winner)

\* Transfers whose tie branch refunds the evaluation stake to both parties.
settle_transfers_tiestake(evaluation, challenge, winner) ==
  LET total_stake == evaluation.stake + challenge.stake IN
  CASE winner = "evaluator" ->
         transfer_reward(<<>>, evaluation.solver, total_stake)
    [] winner = "challenger" ->
         transfer_reward(<<>>, challenge.challenger, total_stake)
    [] winner = "tie" ->
         transfer_reward(transfer_reward(<<>>, evaluation.solver, evaluation.stake),
                         challenge.challenger, evaluation.stake)

\* The transfers of the three branches of the match on winner.
settle_transfers(evaluation, challenge, winner) ==
  LET total_stake == evaluation.stake + challenge.stake IN
  CASE winner = "evaluator" ->
         transfer_reward(<<>>, evaluation.solver, total_stake)
    [] winner = "challenger" ->
         transfer_reward(<<>>, challenge.challenger, total_stake)
    [] winner = "tie" ->
         transfer_reward(transfer_reward(<<>>, evaluation.solver, evaluation.stake),
                         challenge.challenger, challenge.stake)

\* Solver updates whose tie branch counts a failed evaluation for both parties.
settle_solvers_tiefails(sv, evaluation, challenge, winner, t) ==
  IF winner = "tie"
  THEN update_solver_reputation(
           update_solver_reputation(sv, evaluation.solver, FALSE, t),
           challenge.challenger, FALSE, t)
  ELSE sv

\* The solver records after the branch of the match on winner, each update
\* reading the record the previous one wrote.
settle_solvers(sv, evaluation, challenge, winner, t) ==
  LET total_stake == evaluation.stake + challenge.stake IN
  CASE winner = "evaluator" ->
         LET s1 == update_solver_reputation(sv, evaluation.solver, TRUE, t)
             s2 == update_solver_challenge_metrics(s1, evaluation.solver, TRUE)
             s3 == update_solver_reputation(s2, challenge.challenger, FALSE, t)
         IN  update_solver_performance_metrics(s3, evaluation.solver,
                 evaluation.execution_time, evaluation.confidence,
                 evaluation.n_sources, total_stake, t)
    [] winner = "challenger" ->
         LET s1 == update_solver_reputation(sv, challenge.challenger, TRUE, t)
             s2 == update_solver_challenge_metrics(s1, evaluation.solver, FALSE)
             s3 == update_solver_reputation(s2, evaluation.solver, FALSE, t)
         IN  IF evaluation.solver \in DOMAIN s3
             THEN [s3 EXCEPT ![evaluation.solver].total_stakes_lost = @ + evaluation.stake]
             ELSE s3
    [] winner = "tie" -> sv

\* The method reads the evaluation and the challenge and ends without
\* inserting either record: both maps stay as they are.
SettleDispute(caller, evaluation_id, challenge_id, winner) ==
  IF ~settle_dispute_ok(caller, evaluation_id, challenge_id, winner)
  THEN Reject
  ELSE LET evaluation == evaluations[evaluation_id]
           challenge == challenges[challenge_id]
           transfers == settle_transfers(evaluation, challenge, winner)
       IN  /\ solvers' = settle_solvers(solvers, evaluation, challenge, winner, now)
           /\ paid' = paid + SumAmounts(transfers)
           /\ settles' = Bump(settles, {evaluation_id})
           /\ Return("settle_dispute", evaluation_id, challenge_id, winner,
                           transfers)
           /\ UNCHANGED <<intents, evaluations, challenges, solver_stakes, users, admins, verifiers,
                          intent_counter, evaluation_counter, challenge_counter, now,
                          escrowed, finalizes, refunds>>

\* ------------------------------------------------ distribute_performance_rewards
\* 100 * ln(n) for n = 1, 2, ..., to the nearest integer.
LN_TABLE == <<0, 69, 110, 139, 161, 179, 195, 208, 220, 230, 240, 248, 256, 264, 271, 277, 283, 289, 294, 300>>

\* (n as f64).ln().max(0.0): ln(0) is -inf, which max(0.0) turns into 0.
ln_max0(n) == IF n = 0 THEN <<0, 1>> ELSE Norm(LN_TABLE[n], 100)

RMin(x, y) == IF RLe(x, y) THEN x ELSE y

calculate_weighted_performance_score(solver) ==
  LET base_score == solver.reputation_score
      activity_bonus == RMul(ln_max0(solver.total_evaluations), <<1, 10>>)
      challenge_defense_bonus ==
        IF solver.total_challenges_received > 0
        THEN RMul(Norm(solver.challenges_successfully_defended,
                       solver.total_challenges_received), <<1, 5>>)
        ELSE <<1, 10>>
      speed ==
        IF RLt(<<0, 1>>, solver.average_execution_time)
        THEN RMin(RDiv(<<300000, 1>>, solver.average_execution_time), <<3, 10>>)
        ELSE <<0, 1>>
  IN  RAdd(RAdd(RAdd(base_score, activity_bonus), challenge_defense_bonus), speed)

active_solvers(sv) == {a \in DOMAIN sv : sv[a].is_active /\ sv[a].total_evaluations > 0}

RECURSIVE total_weighted_score(_, _)
total_weighted_score(sv, S) ==
  IF S = {} THEN <<0, 1>>
  ELSE LET a == CHOOSE x \in S : TRUE
       IN  RAdd(calculate_weighted_performance_score(sv[a]), total_weighted_score(sv, S \ {a}))

\* ((weighted_score / total_weighted_score) * total_reward_pool as f64) as
\* Balance.  With a total of 0.0 every score is 0.0 and the quotient is NaN,
\* which the cast turns into 0.
reward_amount(weighted_score, total, total_reward_pool) ==
  IF total[1] = 0 THEN 0
  ELSE AsBalance(RMul(RDiv(weighted_score, total), as_f64(total_reward_pool)))

RECURSIVE distribute_transfers(_, _, _, _)
distribute_transfers(sv, S, total, total_reward_pool) ==
  IF S = {} THEN <<>>
  ELSE LET a == CHOOSE x \in S : TRUE
           amount == reward_amount(calculate_weighted_performance_score(sv[a]), total,
                                   total_reward_pool)
           rest == distribute_transfers(sv, S \ {a}, total, total_reward_pool)
       IN  IF amount > 0 THEN <<[to |-> a, amount |-> amount]>> \o rest ELSE rest

distribute_solvers(sv, S, total, total_reward_pool) ==
  [a \in DOMAIN sv |->
     IF a \in S
     THEN [sv[a] EXCEPT !.total_rewards_earned =
             @ + reward_amount(calculate_weighted_performance_score(sv[a]), total,
                               total_reward_pool)]
     ELSE sv[a]]

DistributePerformanceRewards(caller, total_reward_pool) ==
  IF ~assert_owner(caller)
  THEN Reject
  ELSE LET S == active_solvers(solvers)
           total == total_weighted_score(solvers, S)
           transfers == IF S = {} THEN <<>>
                        ELSE distribute_transfers(solvers, S, total, total_reward_pool)
       IN  /\ solvers' = IF S = {} THEN solvers
                         ELSE distribute_solvers(solvers, S, total, total_reward_pool)
           /\ paid' = paid + SumAmounts(transfers)
           /\ Return("distribute_performance_rewards", total_reward_pool, 0, "", transfers)
           /\ UNCHANGED <<intents, evaluations, challenges, solver_stakes, users, admins,
                          verifiers, intent_counter, evaluation_counter, challenge_counter,
                          now, escrowed, settles, finalizes, refunds>>

\* -------------------------------------------------- finalize_evaluation_reward
\* Preconditions without the status check.
finalize_ok_nostatus(evaluation_id) ==
  /\ evaluation_id \in DOMAIN evaluations
  /\ now > evaluations[evaluation_id].submitted_at + CHALLENGE_PERIOD
  /\ evaluations[evaluation_id].intent_id \in DOMAIN intents

\* A finalize whose window opens at the challenge deadline itself.
finalize_ok_atdeadline(evaluation_id) ==
  /\ evaluation_id \in DOMAIN evaluations
  /\ evaluations[evaluation_id].status = "Submitted"
  /\ now >= evaluations[evaluation_id].submitted_at + CHALLENGE_PERIOD
  /\ evaluations[evaluation_id].intent_id \in DOMAIN intents

finalize_ok(evaluation_id) ==
  /\ evaluation_id \in DOMAIN evaluations
  /\ evaluations[evaluation_id].status = "Submitted"
  /\ now > evaluations[evaluation_id].submitted_at + CHALLENGE_PERIOD
  /\ evaluations[evaluation_id].intent_id \in DOMAIN intents

\* 1.0 + (reputation_score - 0.5) * 0.5
reputation_multiplier(reputation_score) ==
  RAdd(<<1, 1>>, RMul(RSub(reputation_score, <<1, 2>>), <<1, 2>>))

\* (60.0 - execution_time_seconds) / 60.0 * 0.1
speed_bonus(execution_time_seconds) ==
  RMul(RDiv(RSub(<<60, 1>>, execution_time_seconds), <<60, 1>>), <<1, 10>>)

\* The reward of the source: the base is truncated after the reputation
\* multiplier and again after the speed bonus.
finalize_reward(intent, evaluation, sv) ==
  LET base == intent.reward + evaluation.stake IN
  IF evaluation.solver \notin DOMAIN sv THEN base
  ELSE LET r1 == AsBalance(RMul(as_f64(base),
                      reputation_multiplier(sv[evaluation.solver].reputation_score)))
           execution_time_seconds == Norm(evaluation.execution_time, 1000)
       IN  IF RLt(execution_time_seconds, <<60, 1>>)
           THEN AsBalance(RMul(as_f64(r1),
                    RAdd(<<1, 1>>, speed_bonus(execution_time_seconds))))
           ELSE r1

\* Any account may call it; the method does not read the caller.
FinalizeEvaluationReward(evaluation_id) ==
  IF ~finalize_ok(evaluation_id)
  THEN Reject
  ELSE LET evaluation == evaluations[evaluation_id]
           intent == intents[evaluation.intent_id]
           total_reward == finalize_reward(intent, evaluation, solvers)
           transfers == transfer_reward(<<>>, evaluation.solver, total_reward)
       IN  /\ evaluations' = [evaluations EXCEPT ![evaluation_id].status = "Confirmed"]
           /\ solvers' = update_solver_performance_metrics(solvers, evaluation.solver,
                             evaluation.execution_time, evaluation.confidence,
                             evaluation.n_sources, total_reward, now)
           /\ paid' = paid + SumAmounts(transfers)
           /\ Return("finalize_evaluation_reward", evaluation_id, 0, "", transfers)
           /\ finalizes' = Bump(finalizes, {evaluation_id})
           /\ UNCHANGED <<intents, challenges, solver_stakes, users, admins, verifiers,
                          intent_counter, evaluation_counter, challenge_counter, now,
                          escrowed, settles, refunds>>

\* ------------------------------------------------------ process_expired_intents
\* An expiry test that forgets the status.
IsExpired_anystatus(intent, current_time) == intent.deadline < current_time

\* An expiry test that takes the deadline itself as passed.
IsExpired_atdeadline(intent, current_time) ==
  intent.deadline <= current_time /\ intent.status = "Pending"

IsExpired(intent, current_time) ==
  intent.deadline < current_time /\ intent.status = "Pending"

expired_intent_ids(current_time) ==
  {i \in DOMAIN intents : IsExpired(intents[i], current_time)}

RECURSIVE refund_transfers(_, _)
refund_transfers(ids, ts) ==
  IF ids = {} THEN ts
  ELSE LET i == CHOOSE x \in ids : \A y \in ids : x <= y
       IN  refund_transfers(ids \ {i},
                            transfer_reward(ts, intents[i].initiator, intents[i].stake))

\* A loop over the expired ids that does not write the status back.
expire_intents_nowrite(ids) == intents

\* The intents after the loop over the expired ids.
expire_intents(ids) ==
  [i \in DOMAIN intents |->
     IF i \in ids THEN [intents[i] EXCEPT !.status = "Expired"] ELSE intents[i]]

\* Any account may call it; the method does not read the caller.  id1 of the
\* call record is the count the method returns.
ProcessExpiredIntents ==
  LET ids == expired_intent_ids(now)
      transfers == refund_transfers(ids, <<>>)
  IN  /\ intents' = expire_intents(ids)
      /\ paid' = paid + SumAmounts(transfers)
      /\ refunds' = Bump(refunds, ids)
      /\ Return("process_expired_intents", Cardinality(ids), 0, "", transfers)
      /\ UNCHANGED <<evaluations, challenges, solvers, solver_stakes, users, admins,
                     verifiers, intent_counter, evaluation_counter, challenge_counter,
                     now, escrowed, settles, finalizes>>

\* ------------------------------------------------------------- cleanup_old_data
HOURS_PER_DAY == 24

\* env::block_timestamp().saturating_sub(retention_period)
cutoff_time(t, retention_days) ==
  IF t < retention_days * HOURS_PER_DAY THEN 0 ELSE t - retention_days * HOURS_PER_DAY

old_intent_ids_of(its, cutoff) ==
  {i \in DOMAIN its :
     /\ its[i].created_at < cutoff
     /\ its[i].status \in {"Completed", "Settled", "Expired"}}

old_intent_ids(cutoff) == old_intent_ids_of(intents, cutoff)

old_evaluation_ids(cutoff) ==
  {e \in DOMAIN evaluations :
     /\ evaluations[e].submitted_at < cutoff
     /\ evaluations[e].status \in {"Confirmed", "Refuted"}}

old_challenge_ids(cutoff) ==
  {c \in DOMAIN challenges :
     /\ challenges[c].submitted_at < cutoff
     /\ challenges[c].status \in {"Successful", "Failed"}}

CleanupOldData(caller, retention_days) ==
  IF ~assert_owner(caller)
  THEN Reject
  ELSE LET cutoff == cutoff_time(now, retention_days)
           cleaned_count == Cardinality(old_intent_ids(cutoff))
                              + Cardinality(old_evaluation_ids(cutoff))
                              + Cardinality(old_challenge_ids(cutoff))
       IN  /\ intents' = Remove(intents, old_intent_ids(cutoff))
           /\ evaluations' = Remove(evaluations, old_evaluation_ids(cutoff))
           /\ challenges' = Remove(challenges, old_challenge_ids(cutoff))
           /\ Return("cleanup_old_data", 0, 0, "", <<>>)
           /\ UNCHANGED <<solvers, solver_stakes, users, admins, verifiers, intent_counter,
                          evaluation_counter, challenge_counter, now, ledger>>

\* ----------------------------------------------------------------- auto_cleanup
CLEANUP_INTERVAL == 100
AUTO_RETENTION_DAYS == 30

\* The method calls cleanup_old_data, which asserts the owner, when the
\* intent counter is a multiple of 100.
auto_cleanup_ok(caller) ==
  intent_counter % CLEANUP_INTERVAL = 0 => assert_owner(caller)

AutoCleanup(caller) ==
  IF ~auto_cleanup_ok(caller)
  THEN Reject
  ELSE LET ids == expired_intent_ids(now)
           transfers == refund_transfers(ids, <<>>)
           swept == expire_intents(ids)
           cleans == intent_counter % CLEANUP_INTERVAL = 0
           cutoff == cutoff_time(now, AUTO_RETENTION_DAYS)
           old == IF cleans THEN old_intent_ids_of(swept, cutoff) ELSE {}
       IN  /\ intents' = Remove(swept, old)
           /\ evaluations' = IF cleans
                             THEN Remove(evaluations, old_evaluation_ids(cutoff))
                             ELSE evaluations
           /\ challenges' = IF cleans
                            THEN Remove(challenges, old_challenge_ids(cutoff))
                            ELSE challenges
           /\ paid' = paid + SumAmounts(transfers)
           /\ refunds' = Bump(refunds, ids)
           /\ Return("auto_cleanup", Cardinality(ids), 0, "", transfers)
           /\ UNCHANGED <<solvers, solver_stakes, users, admins, verifiers,
                          intent_counter, evaluation_counter, challenge_counter, now,
                          escrowed, settles, finalizes>>

\* ------------------------------------------- batch_process_expired_and_cleanup
\* cleanup_old_data_limited, which asserts the owner, runs when the sweep
\* expired fewer intents than max_operations.
batch_process_ok(caller, max_operations) ==
  Cardinality(expired_intent_ids(now)) < max_operations => assert_owner(caller)

\* The sets of at most max_deletions old intents the limited cleanup may
\* take: the first ones in the iteration order of the map, which the caller
\* does not control.
limited_old_intent_ids(its, cutoff, max_deletions) ==
  LET old == old_intent_ids_of(its, cutoff) IN
  {S \in SUBSET old :
     Cardinality(S) = (IF Cardinality(old) < max_deletions
                       THEN Cardinality(old) ELSE max_deletions)}

BatchProcessExpiredAndCleanup(caller, max_operations) ==
  IF ~batch_process_ok(caller, max_operations)
  THEN Reject
  ELSE LET ids == expired_intent_ids(now)
           transfers == refund_transfers(ids, <<>>)
           swept == expire_intents(ids)
           expired_count == Cardinality(ids)
           cutoff == cutoff_time(now, AUTO_RETENTION_DAYS)
       IN  /\ \E old \in (IF expired_count < max_operations
                           THEN limited_old_intent_ids(swept, cutoff,
                                                       max_operations - expired_count)
                           ELSE {{}}) :
                 /\ intents' = Remove(swept, old)
                 /\ Return("batch_process_expired_and_cleanup", expired_count,
                           Cardinality(old), "", transfers)
           /\ paid' = paid + SumAmounts(transfers)
           /\ refunds' = Bump(refunds, ids)
           /\ UNCHANGED <<evaluations, challenges, solvers, solver_stakes, users, admins,
                          verifiers, intent_counter, evaluation_counter,
                          challenge_counter, now, escrowed, settles, finalizes>>

\* ------------------------------------------------------------------ the clock
\* The clock moves forward between calls.
Tick ==
  /\ \E t \in Instants : t > now /\ now' = t
  /\ UNCHANGED <<contract, history>>

\* ------------------------------------------------------------------ the calls
\* Each public method, called by any account with any of the inputs above.  A
\* behaviour holds at most MaxCalls calls that return.
CallRegisterSolver ==
  /\ calls < MaxCalls
  /\ \E a \in Accounts, d \in SolverDeposits : RegisterSolver(a, d)

CallSubmitCredibilityIntent ==
  /\ calls < MaxCalls
  /\ \E a \in Initiators, d \in IntentDeposits, q \in {TRUE}, m \in DeadlineMinutes :
       SubmitCredibilityIntent(a, d, q, m)

CallAcceptIntent ==
  /\ calls < MaxCalls
  /\ \E a \in Accounts, i \in IntentIds : AcceptIntent(a, i)

CallCompleteIntentExecution ==
  /\ calls < MaxCalls
  /\ \E a \in Accounts, i \in IntentIds, e \in EvaluationIds :
       CompleteIntentExecution(a, i, e)

CallSubmitEvaluation ==
  /\ calls < MaxCalls
  /\ \E a \in Accounts, d \in EvaluationDeposits, i \in IntentIds, c \in Confidences,
        n \in SourceCounts, x \in ExecTimes : SubmitEvaluation(a, d, i, c, n, x)

CallSubmitChallenge ==
  /\ calls < MaxCalls
  /\ \E a \in Accounts, d \in ChallengeDeposits, e \in EvaluationIds, n \in SourceCounts :
       SubmitChallenge(a, d, e, n)

CallSettleDispute ==
  /\ calls < MaxCalls
  /\ \E a \in Accounts, e \in EvaluationIds, c \in ChallengeIds, w \in Winners :
       SettleDispute(a, e, c, w)

CallFinalizeEvaluationReward ==
  /\ calls < MaxCalls
  /\ \E e \in EvaluationIds : FinalizeEvaluationReward(e)

CallProcessExpiredIntents ==
  /\ calls < MaxCalls
  /\ ProcessExpiredIntents

CallCleanupOldData ==
  /\ calls < MaxCalls
  /\ \E a \in Accounts, r \in RetentionDays : CleanupOldData(a, r)

CallRegisterUser ==
  /\ calls < MaxCalls
  /\ \E a \in Accounts, r \in UserRoles : RegisterUser(a, r)

CallAutoCleanup ==
  /\ calls < MaxCalls
  /\ \E a \in Accounts : AutoCleanup(a)

CallBatchProcessExpiredAndCleanup ==
  /\ calls < MaxCalls
  /\ \E a \in Accounts, m \in MaxOperations : BatchProcessExpiredAndCleanup(a, m)

CallDistributePerformanceRewards ==
  /\ calls < MaxCalls
  /\ \E a \in Accounts, p \in RewardPools : DistributePerformanceRewards(a, p)

Next ==
  \/ Tick
  \/ CallRegisterSolver
  \/ CallSubmitCredibilityIntent
  \/ CallAcceptIntent
  \/ CallCompleteIntentExecution
  \/ CallSubmitEvaluation
  \/ CallSubmitChallenge
  \/ CallSettleDispute
  \/ CallFinalizeEvaluationReward
  \/ CallProcessExpiredIntents
  \/ CallCleanupOldData

Spec == Init /\ [][Next]_vars

\* The same calls with the registration of users and the two composite entry
\* points of the sweeper among them.
NextAll ==
  \/ Next
  \/ CallRegisterUser
  \/ CallAutoCleanup
  \/ CallBatchProcessExpiredAndCleanup
  \/ CallDistributePerformanceRewards

SpecAll == Init /\ [][NextAll]_vars

\* The path of an evaluation to its resolution (register, create, evaluate,
\* challenge, settle, finalize), with accepted deposits only and behaviours of
\* up to MaxDeepCalls calls: long enough for two evaluations to be resolved.
DeepRegisterSolver ==
  /\ calls < MaxDeepCalls
  /\ \E a \in Accounts : RegisterSolver(a, MIN_STAKE)

DeepSubmitCredibilityIntent ==
  /\ calls < MaxDeepCalls
  /\ \E a \in Initiators : SubmitCredibilityIntent(a, MIN_STAKE + 1, TRUE, None)

DeepSubmitEvaluation ==
  /\ calls < MaxDeepCalls
  /\ \E a \in Accounts, i \in IntentIds, c \in Confidences, n \in SourceCounts, x \in ExecTimes :
       SubmitEvaluation(a, MIN_STAKE, i, c, n, x)

DeepSubmitChallenge ==
  /\ calls < MaxDeepCalls
  /\ \E a \in Accounts, e \in EvaluationIds, n \in SourceCounts :
       SubmitChallenge(a, MIN_STAKE + 1, e, n)

DeepSettleDispute ==
  /\ calls < MaxDeepCalls
  /\ \E e \in EvaluationIds, c \in ChallengeIds, w \in Winners : SettleDispute(Owner, e, c, w)

DeepFinalizeEvaluationReward ==
  /\ calls < MaxDeepCalls
  /\ \E e \in EvaluationIds : FinalizeEvaluationReward(e)

NextDeep ==
  \/ Tick
  \/ DeepRegisterSolver
  \/ DeepSubmitCredibilityIntent
  \/ DeepSubmitEvaluation
  \/ DeepSubmitChallenge
  \/ DeepSettleDispute
  \/ DeepFinalizeEvaluationReward

SpecDeep == Init /\ [][NextDeep]_vars

\* The life of an intent among callers that keep calling: a call that stays
\* possible is eventually made (weak fairness of each method).  Every
\* behaviour is finite: each account registers once,
\* at most MaxLiveIntents intents are created, a dispute is settled once, the
\* sweeper is called when an intent has expired, and intents and evaluations
\* are submitted before the last instant, Horizon, at which every deadline
\* and every challenge period that started before it is over.
Horizon == 2 * CHALLENGE_PERIOD + 2

LiveTick ==
  /\ \E t \in Instants \cup {Horizon} : t > now /\ now' = t
  /\ UNCHANGED <<contract, history>>

LiveRegisterSolver ==
  \E a \in Accounts \ DOMAIN solvers : RegisterSolver(a, MIN_STAKE)

LiveSubmitCredibilityIntent ==
  /\ intent_counter < MaxLiveIntents
  /\ now < Horizon
  /\ \E a \in Initiators, m \in DeadlineMinutes : SubmitCredibilityIntent(a, MIN_STAKE + 1, TRUE, m)

LiveAcceptIntent ==
  \E a \in Accounts, i \in DOMAIN intents : accept_intent_ok(a, i) /\ AcceptIntent(a, i)

LiveSubmitEvaluation ==
  /\ now < Horizon
  /\ \E a \in Accounts, i \in DOMAIN intents, c \in Confidences, n \in SourceCounts :
       /\ submit_evaluation_ok(a, MIN_STAKE, i, c, n)
       /\ SubmitEvaluation(a, MIN_STAKE, i, c, n, 0)

LiveCompleteIntentExecution ==
  \E a \in Accounts, i \in DOMAIN intents, e \in DOMAIN evaluations :
    complete_intent_ok(a, i, e) /\ CompleteIntentExecution(a, i, e)

LiveSubmitChallenge ==
  \E a \in Accounts, e \in DOMAIN evaluations, n \in SourceCounts :
    submit_challenge_ok(MIN_STAKE + 1, e, n) /\ SubmitChallenge(a, MIN_STAKE + 1, e, n)

LiveSettleDispute ==
  \E e \in DOMAIN evaluations \ DOMAIN settles, c \in DOMAIN challenges, w \in Winners :
    settle_dispute_ok(Owner, e, c, w) /\ SettleDispute(Owner, e, c, w)

LiveFinalizeEvaluationReward ==
  \E e \in DOMAIN evaluations : finalize_ok(e) /\ FinalizeEvaluationReward(e)

LiveProcessExpiredIntents ==
  /\ expired_intent_ids(now) # {}
  /\ ProcessExpiredIntents

NextLive ==
  \/ LiveTick
  \/ LiveRegisterSolver
  \/ LiveSubmitCredibilityIntent
  \/ LiveAcceptIntent
  \/ LiveSubmitEvaluation
  \/ LiveCompleteIntentExecution
  \/ LiveSubmitChallenge
  \/ LiveSettleDispute
  \/ LiveFinalizeEvaluationReward
  \/ LiveProcessExpiredIntents

\* A finalize_evaluation_reward call that returns: the only step that counts
\* a finalize.
FinalizeHappens ==
  \E e \in DOMAIN evaluations : finalize_ok(e) /\ finalizes' = Bump(finalizes, {e})

\* A call that stays possible is eventually made, and time goes on.
LiveFairness ==
  /\ WF_vars(LiveTick)
  /\ WF_vars(LiveRegisterSolver)
  /\ WF_vars(LiveSubmitCredibilityIntent)
  /\ WF_vars(LiveAcceptIntent)
  /\ WF_vars(LiveSubmitEvaluation)
  /\ WF_vars(LiveCompleteIntentExecution)
  /\ WF_vars(LiveSubmitChallenge)
  /\ WF_vars(LiveSettleDispute)
  /\ WF_finalizes(FinalizeHappens)
  /\ WF_vars(LiveProcessExpiredIntents)

SpecLive == Init /\ [][NextLive]_vars /\ LiveFairness

\* ===================================================================== claims
\* A step that is a settle_dispute call that returned; last' names its
\* evaluation (id1), its challenge (id2) and its winner.
SettleStep == calls' = calls + 1 /\ last'.op = "settle_dispute"

\* C1: settle is single-shot: over any sequence of operations at most one
\* settle_dispute call on a given evaluation returns; every later one on the
\* same evaluation is rejected.
C1_SettleSingleShot == \A e \in DOMAIN settles : settles[e] <= 1

\* C2: no payout exceeds the escrowed pool: the cumulative amount transferred
\* out by sweep, finalize and settle is at most the cumulative stake attached
\* through submit_credibility_intent, submit_evaluation and submit_challenge.
C2_PaidWithinEscrow == paid <= escrowed

\* C3: conservation in settle: under each winner value the transfers of a
\* settle_dispute call go to the evaluation's solver and the challenger only
\* and add up to evaluation.stake + challenge.stake exactly.
C3_SettleConservation ==
  last.op = "settle_dispute" =>
    LET evaluation == evaluations[last.id1]
        challenge == challenges[last.id2]
    IN  /\ SumAmounts(last.transfers) = evaluation.stake + challenge.stake
        /\ \A k \in DOMAIN last.transfers :
             last.transfers[k].to \in {evaluation.solver, challenge.challenger}
        /\ last.winner = "evaluator" =>
             Received(last.transfers, evaluation.solver) = evaluation.stake + challenge.stake
        /\ last.winner = "challenger" =>
             Received(last.transfers, challenge.challenger)
               = evaluation.stake + challenge.stake

C3_Witness ==
  /\ last.op = "settle_dispute"
  /\ last.winner = "tie"
  /\ SumAmounts(last.transfers) = 2 * MIN_STAKE + 1
  /\ Len(last.transfers) = 2

\* C4: each change of an intent's status follows an edge of the graph
\* Pending -> {InProgress, Expired}, InProgress -> {Completed, Disputed}: no
\* step sets an existing intent back to Pending, none leaves Completed,
\* Settled or Expired, and an id once allocated is never given to a new intent.
IntentEdges == {<<"Pending", "InProgress">>, <<"Pending", "Expired">>,
                <<"InProgress", "Completed">>, <<"InProgress", "Disputed">>}

C4_IntentStatusForward ==
  [][/\ \A i \in DOMAIN intents \cap DOMAIN intents' :
          intents'[i].status # intents[i].status
            => <<intents[i].status, intents'[i].status>> \in IntentEdges
     /\ \A i \in DOMAIN intents' \ DOMAIN intents :
          i > intent_counter /\ intents'[i].status = "Pending"]_vars

\* An intent completed (Pending, InProgress, Completed) beside one the
\* sweeper expired.
C4_Witness ==
  /\ last.op = "complete_intent_execution"
  /\ intents[last.id1].status = "Completed"
  /\ \E i \in DOMAIN intents : intents[i].status = "Expired"

\* C5: after a settle_dispute call that returned, the evaluation is Confirmed
\* or Refuted (no longer Challenged) and the challenge is Successful or Failed
\* (no longer Submitted).
C5_SettleResolves ==
  last.op = "settle_dispute" =>
    /\ evaluations[last.id1].status \in {"Confirmed", "Refuted"}
    /\ challenges[last.id2].status \in {"Successful", "Failed"}

\* C6: submit_challenge with a stake less than or equal to the evaluation's
\* stake is rejected, whatever the evaluation's status and the time: no such
\* call is admissible, and every step that creates a challenge, moves the
\* challenge counter or turns an evaluation Challenged creates a challenge
\* whose stake is strictly greater than its evaluation's stake.
C6_ChallengeStakeStrict ==
  [][/\ \A e \in DOMAIN evaluations, d \in ChallengeDeposits, n \in SourceCounts :
          d <= evaluations[e].stake => ~submit_challenge_ok(d, e, n)
     /\ (\/ challenge_counter' # challenge_counter
         \/ challenges' # challenges
         \/ \E e \in DOMAIN evaluations \cap DOMAIN evaluations' :
              /\ evaluations[e].status # "Challenged"
              /\ evaluations'[e].status = "Challenged")
        => /\ challenge_counter' = challenge_counter + 1
           /\ DOMAIN challenges' = DOMAIN challenges \cup {challenge_counter'}
           /\ LET c == challenges'[challenge_counter']
              IN  /\ c.evaluation_id \in DOMAIN evaluations
                  /\ c.stake > evaluations[c.evaluation_id].stake]_vars

\* An evaluation open to challenge for which the equal stake is refused and
\* the next larger one accepted.
C6_Witness ==
  \E e \in DOMAIN evaluations :
    /\ evaluations[e].stake \in ChallengeDeposits
    /\ ~submit_challenge_ok(evaluations[e].stake, e, 1)
    /\ submit_challenge_ok(evaluations[e].stake + 1, e, 1)

\* C7: at most one challenge per evaluation: no two challenge records target
\* the same evaluation, no more challenges were ever created than
\* evaluations, and a further submit_challenge against an evaluation that has
\* a challenge is rejected whatever its stake.
C7_OneChallengePerEvaluation ==
  /\ \A c1, c2 \in DOMAIN challenges :
       c1 # c2 => challenges[c1].evaluation_id # challenges[c2].evaluation_id
  /\ challenge_counter <= evaluation_counter
  /\ \A c \in DOMAIN challenges, d \in ChallengeDeposits, n \in SourceCounts :
       ~submit_challenge_ok(d, challenges[c].evaluation_id, n)

\* A challenged evaluation still inside its challenge period, against which a
\* larger stake is refused.
C7_Witness ==
  \E c \in DOMAIN challenges :
    LET e == challenges[c].evaluation_id IN
    /\ e \in DOMAIN evaluations
    /\ now <= evaluations[e].submitted_at + CHALLENGE_PERIOD
    /\ MIN_STAKE + 1 > evaluations[e].stake
    /\ ~submit_challenge_ok(MIN_STAKE + 1, e, 1)

\* C8: at most one evaluation per intent: no two evaluation records have the
\* same intent id, no more evaluations were ever created than intents, and a
\* further submit_evaluation against an intent that has an evaluation is
\* rejected for every solver.
C8_OneEvaluationPerIntent ==
  /\ \A e1, e2 \in DOMAIN evaluations :
       e1 # e2 => evaluations[e1].intent_id # evaluations[e2].intent_id
  /\ evaluation_counter <= intent_counter
  /\ \A e \in DOMAIN evaluations, a \in Accounts, d \in EvaluationDeposits,
        c \in Confidences, n \in SourceCounts :
       ~submit_evaluation_ok(a, d, evaluations[e].intent_id, c, n)

\* An intent that has an evaluation and whose deadline has not passed, for
\* which a registered solver's second evaluation is refused.
C8_Witness ==
  \E e \in DOMAIN evaluations, a \in DOMAIN solvers :
    LET i == evaluations[e].intent_id IN
    /\ i \in DOMAIN intents
    /\ now <= intents[i].deadline
    /\ a # evaluations[e].solver
    /\ ~submit_evaluation_ok(a, MIN_STAKE, i, <<9, 10>>, 1)

\* C9 (as stated): settle with winner = challenger pays the challenger
\* exactly evaluation.stake + challenge.stake and the solver nothing; the
\* solver's total_evaluations rises by 1 with successful_evaluations
\* unchanged, total_stakes_lost by evaluation.stake, total_challenges_received
\* by 1 with challenges_successfully_defended unchanged.
C9_ChallengerWins_AsStated ==
  [][SettleStep /\ last'.winner = "challenger" =>
       LET evaluation == evaluations[last'.id1]
           challenge == challenges[last'.id2]
           s == evaluation.solver
       IN  /\ Received(last'.transfers, challenge.challenger)
                = evaluation.stake + challenge.stake
           /\ Received(last'.transfers, s) = 0
           /\ solvers'[s].total_evaluations = solvers[s].total_evaluations + 1
           /\ solvers'[s].successful_evaluations = solvers[s].successful_evaluations
           /\ solvers'[s].total_stakes_lost = solvers[s].total_stakes_lost + evaluation.stake
           /\ solvers'[s].total_challenges_received
                = solvers[s].total_challenges_received + 1
           /\ solvers'[s].challenges_successfully_defended
                = solvers[s].challenges_successfully_defended]_vars

\* C9 (amended): settle with winner = challenger pays the challenger exactly
\* evaluation.stake + challenge.stake in one transfer; the solver's
\* total_stakes_lost rises by evaluation.stake and its
\* total_challenges_received by 1 with challenges_successfully_defended
\* unchanged.  When the challenger is another account than the solver, the
\* solver is paid nothing and its total_evaluations rises by 1 with
\* successful_evaluations unchanged; when the solver challenged its own
\* evaluation, it is the account paid, its total_evaluations rises by 2 and
\* its successful_evaluations by 1.
C9_ChallengerWins ==
  [][SettleStep /\ last'.winner = "challenger" =>
       LET evaluation == evaluations[last'.id1]
           challenge == challenges[last'.id2]
           s == evaluation.solver
           self == IF challenge.challenger = s THEN 1 ELSE 0
       IN  /\ last'.transfers = <<[to |-> challenge.challenger,
                                   amount |-> evaluation.stake + challenge.stake]>>
           /\ solvers'[s].total_evaluations = solvers[s].total_evaluations + 1 + self
           /\ solvers'[s].successful_evaluations
                = solvers[s].successful_evaluations + self
           /\ solvers'[s].total_stakes_lost = solvers[s].total_stakes_lost + evaluation.stake
           /\ solvers'[s].total_challenges_received
                = solvers[s].total_challenges_received + 1
           /\ solvers'[s].challenges_successfully_defended
                = solvers[s].challenges_successfully_defended]_vars

C9_Witness ==
  /\ last.op = "settle_dispute"
  /\ last.winner = "challenger"
  /\ challenges[last.id2].challenger # evaluations[last.id1].solver
  /\ solvers[evaluations[last.id1].solver].total_stakes_lost > 0

\* C10 (as stated): settle with winner = evaluator pays the solver exactly
\* evaluation.stake + challenge.stake and the challenger nothing; the solver's
\* total_evaluations and successful_evaluations each rise by 1, its
\* challenges received and defended each by 1, its total_rewards_earned by the
\* pool; a challenger that is a registered solver has total_evaluations raised
\* by 1 with successful_evaluations unchanged.
C10_EvaluatorWins_AsStated ==
  [][SettleStep /\ last'.winner = "evaluator" =>
       LET evaluation == evaluations[last'.id1]
           challenge == challenges[last'.id2]
           s == evaluation.solver
           c == challenge.challenger
           pool == evaluation.stake + challenge.stake
       IN  /\ Received(last'.transfers, s) = pool
           /\ Received(last'.transfers, c) = 0
           /\ solvers'[s].total_evaluations = solvers[s].total_evaluations + 1
           /\ solvers'[s].successful_evaluations = solvers[s].successful_evaluations + 1
           /\ solvers'[s].total_challenges_received
                = solvers[s].total_challenges_received + 1
           /\ solvers'[s].challenges_successfully_defended
                = solvers[s].challenges_successfully_defended + 1
           /\ solvers'[s].total_rewards_earned = solvers[s].total_rewards_earned + pool
           /\ c \in DOMAIN solvers =>
                /\ solvers'[c].total_evaluations = solvers[c].total_evaluations + 1
                /\ solvers'[c].successful_evaluations
                     = solvers[c].successful_evaluations]_vars

\* C10 (amended): settle with winner = evaluator pays the solver exactly
\* evaluation.stake + challenge.stake in one transfer; the solver's
\* successful_evaluations, challenges received and challenges defended each
\* rise by 1 and its total_rewards_earned by the pool.  When the challenger is
\* another account than the solver, the challenger is paid nothing, the
\* solver's total_evaluations rises by 1, and a challenger that is a
\* registered solver has total_evaluations raised by 1 with
\* successful_evaluations unchanged; when the solver challenged its own
\* evaluation, its total_evaluations rises by 2.
C10_EvaluatorWins ==
  [][SettleStep /\ last'.winner = "evaluator" =>
       LET evaluation == evaluations[last'.id1]
           challenge == challenges[last'.id2]
           s == evaluation.solver
           c == challenge.challenger
           pool == evaluation.stake + challenge.stake
           self == IF c = s THEN 1 ELSE 0
       IN  /\ last'.transfers = <<[to |-> s, amount |-> pool]>>
           /\ solvers'[s].total_evaluations = solvers[s].total_evaluations + 1 + self
           /\ solvers'[s].successful_evaluations = solvers[s].successful_evaluations + 1
           /\ solvers'[s].total_challenges_received
                = solvers[s].total_challenges_received + 1
           /\ solvers'[s].challenges_successfully_defended
                = solvers[s].challenges_successfully_defended + 1
           /\ solvers'[s].total_rewards_earned = solvers[s].total_rewards_earned + pool
           /\ (c # s /\ c \in DOMAIN solvers) =>
                /\ solvers'[c].total_evaluations = solvers[c].total_evaluations + 1
                /\ solvers'[c].successful_evaluations
                     = solvers[c].successful_evaluations]_vars

C10_Witness ==
  /\ last.op = "settle_dispute"
  /\ last.winner = "evaluator"
  /\ challenges[last.id2].challenger # evaluations[last.id1].solver
  /\ challenges[last.id2].challenger \in DOMAIN solvers
  /\ solvers[challenges[last.id2].challenger].total_evaluations = 1
  /\ solvers[challenges[last.id2].challenger].successful_evaluations = 0
  /\ solvers[evaluations[last.id1].solver].challenges_successfully_defended = 1

\* C11: settle with winner = tie pays evaluation.stake to the solver and
\* challenge.stake to the challenger, in that order, and leaves every solver
\* record as it was.
C11_TieRefunds ==
  [][SettleStep /\ last'.winner = "tie" =>
       LET evaluation == evaluations[last'.id1]
           challenge == challenges[last'.id2]
       IN  /\ last'.transfers = <<[to |-> evaluation.solver, amount |-> evaluation.stake],
                                  [to |-> challenge.challenger, amount |-> challenge.stake]>>
           /\ solvers' = solvers]_vars

\* A tie settled between two registered solvers, neither with a resolution
\* on its record.
C11_Witness ==
  /\ last.op = "settle_dispute"
  /\ last.winner = "tie"
  /\ challenges[last.id2].challenger # evaluations[last.id1].solver
  /\ challenges[last.id2].challenger \in DOMAIN solvers
  /\ solvers[challenges[last.id2].challenger].total_evaluations = 0
  /\ solvers[evaluations[last.id1].solver].total_evaluations = 0

\* C12: for every registered solver, reputation_score is
\* successful_evaluations / total_evaluations when total_evaluations > 0 and
\* 1.0 when total_evaluations = 0, and successful_evaluations <=
\* total_evaluations.
C12_ReputationIsRatio ==
  \A a \in DOMAIN solvers :
    LET s == solvers[a] IN
    /\ s.successful_evaluations <= s.total_evaluations
    /\ s.total_evaluations > 0 =>
         s.reputation_score = Norm(s.successful_evaluations, s.total_evaluations)
    /\ s.total_evaluations = 0 => s.reputation_score = <<1, 1>>

\* A solver with one success in two resolutions beside the initial state of
\* another.
C12_Witness ==
  \E a, b \in DOMAIN solvers :
    /\ solvers[a].total_evaluations = 2
    /\ solvers[a].successful_evaluations = 1
    /\ solvers[a].reputation_score = <<1, 2>>
    /\ solvers[b].total_evaluations = 0

FinalizeStep == calls' = calls + 1 /\ last'.op = "finalize_evaluation_reward"

\* C14: finalize_evaluation_reward returns only when the evaluation is
\* Submitted and now > submitted_at + challenge_period, and leaves it
\* Confirmed; it returns at most once per evaluation, never on an evaluation
\* that has a challenge, and no challenge is created against an evaluation
\* that was finalized.
C14_FinalizeOnceUnopposed ==
  [][/\ FinalizeStep =>
          LET e == last'.id1 IN
          /\ e \in DOMAIN evaluations
          /\ evaluations[e].status = "Submitted"
          /\ now > evaluations[e].submitted_at + CHALLENGE_PERIOD
          /\ evaluations'[e].status = "Confirmed"
          /\ finalizes'[e] = 1
          /\ e \notin DOMAIN settles
          /\ \A c \in DOMAIN challenges : challenges[c].evaluation_id # e
     /\ \A c \in DOMAIN challenges' \ DOMAIN challenges :
          challenges'[c].evaluation_id \notin DOMAIN finalizes]_vars

\* An evaluation finalized after its challenge period, on which a second
\* finalize is refused.
C14_Witness ==
  /\ last.op = "finalize_evaluation_reward"
  /\ last.id1 \in DOMAIN evaluations
  /\ evaluations[last.id1].status = "Confirmed"
  /\ finalizes[last.id1] = 1
  /\ now > evaluations[last.id1].submitted_at + CHALLENGE_PERIOD
  /\ evaluations[last.id1].intent_id \in DOMAIN intents
  /\ ~finalize_ok(last.id1)

\* C15: a finalize_evaluation_reward call that returns raises the solver's
\* total_evaluations and successful_evaluations by 1 each and recomputes its
\* reputation_score, beside the update of the performance metrics.
C15_FinalizeCountsSuccess ==
  [][FinalizeStep =>
       LET s == evaluations[last'.id1].solver IN
       /\ solvers'[s].total_evaluations = solvers[s].total_evaluations + 1
       /\ solvers'[s].successful_evaluations = solvers[s].successful_evaluations + 1
       /\ solvers'[s].reputation_score
            = Norm(solvers'[s].successful_evaluations, solvers'[s].total_evaluations)]_vars

\* C16: the amount finalize_evaluation_reward pays is
\* floor(base * reputation_multiplier * (1 + speed_bonus)), one truncation of
\* the exact product, with base = intent.reward + evaluation.stake,
\* reputation_multiplier = 1 + (reputation_score - 0.5) * 0.5 and speed_bonus
\* = (60 - seconds) / 60 * 0.1 when seconds < 60 and 0 otherwise.
C16_FinalizeSingleTruncation ==
  [][FinalizeStep =>
       LET evaluation == evaluations[last'.id1]
           intent == intents[evaluation.intent_id]
           base == intent.reward + evaluation.stake
           multiplier == RAdd(<<1, 1>>,
                              RMul(RSub(solvers[evaluation.solver].reputation_score,
                                        <<1, 2>>), <<1, 2>>))
           seconds == Norm(evaluation.execution_time, 1000)
           bonus == IF RLt(seconds, <<60, 1>>)
                    THEN RMul(RDiv(RSub(<<60, 1>>, seconds), <<60, 1>>), <<1, 10>>)
                    ELSE <<0, 1>>
           exact == RMul(RMul(RInt(base), multiplier), RAdd(<<1, 1>>, bonus))
       IN  last'.transfers = <<[to |-> evaluation.solver, amount |-> exact[1] \div exact[2]]>>]_vars

\* C17: pruning never removes an entity that unresolved work refers to: every
\* evaluation that is Submitted or Challenged has its parent intent in the
\* store, every unresolved challenge has its target evaluation in the store,
\* and cleanup_old_data makes no transfer.
C17_PruneKeepsReferenced ==
  /\ \A e \in DOMAIN evaluations :
       evaluations[e].status \in {"Submitted", "Challenged"}
         => evaluations[e].intent_id \in DOMAIN intents
  /\ \A c \in DOMAIN challenges :
       challenges[c].status = "Submitted"
         => challenges[c].evaluation_id \in DOMAIN evaluations
  /\ last.op = "cleanup_old_data" => last.transfers = <<>>

\* A step that is a process_expired_intents call that returned.
SweepStep == calls' = calls + 1 /\ last'.op = "process_expired_intents"

\* C18: process_expired_intents changes exactly the intents that are Pending
\* with deadline < now: each becomes Expired and its whole stake is
\* transferred to its initiator, every other intent is unchanged, and no
\* intent's stake is refunded by the sweeper more than once.
C18_SweepExact ==
  [][/\ SweepStep =>
          LET ids == {i \in DOMAIN intents :
                        intents[i].status = "Pending" /\ intents[i].deadline < now}
          IN  /\ DOMAIN intents' = DOMAIN intents
              /\ \A i \in DOMAIN intents :
                   intents'[i] = IF i \in ids
                                 THEN [intents[i] EXCEPT !.status = "Expired"]
                                 ELSE intents[i]
              /\ last'.id1 = Cardinality(ids)
              /\ Len(last'.transfers) = Cardinality(ids)
              /\ \A i \in ids : \E k \in DOMAIN last'.transfers :
                   last'.transfers[k] = [to |-> intents[i].initiator,
                                         amount |-> intents[i].stake]
              /\ paid' = paid + SumAmounts(refund_transfers(ids, <<>>))
     /\ \A i \in DOMAIN refunds' : refunds'[i] <= 1]_vars

\* A sweep that expired and refunded one intent beside an overdue intent it
\* left InProgress and a Pending intent not yet overdue.
C18_Witness ==
  /\ last.op = "process_expired_intents"
  /\ last.id1 = 1
  /\ last.at = now
  /\ \E i, j, k \in DOMAIN intents :
       /\ intents[i].status = "Expired" /\ refunds[i] = 1
       /\ intents[j].status = "InProgress" /\ intents[j].deadline < now
       /\ intents[k].status = "Pending" /\ intents[k].deadline = now

\* C19 (as stated): when process_expired_intents is called twice in
\* succession with no intent created between the two calls, the second call
\* returns 0, changes no intent and transfers nothing.
C19_SweepTwice_AsStated ==
  [][SweepStep /\ last.op = "process_expired_intents" =>
       /\ last'.id1 = 0
       /\ intents' = intents
       /\ last'.transfers = <<>>]_vars

\* C19 (amended): when process_expired_intents is called twice in succession
\* with no intent created between the two calls and no Pending intent's
\* deadline passing between them (none with time of the first call <=
\* deadline < time of the second), the second call returns 0, changes no
\* intent and transfers nothing.
C19_SweepTwice ==
  [][(/\ SweepStep
      /\ last.op = "process_expired_intents"
      /\ \A i \in DOMAIN intents :
           intents[i].status = "Pending"
             => ~(last.at <= intents[i].deadline /\ intents[i].deadline < now))
     => /\ last'.id1 = 0
        /\ intents' = intents
        /\ last'.transfers = <<>>]_vars

\* One intent created, a sweep that refunded it, and a second sweep right
\* after it that returned 0.
C19_Witness ==
  /\ calls = 3
  /\ intent_counter = 1
  /\ last.op = "process_expired_intents"
  /\ last.id1 = 0
  /\ last.transfers = <<>>
  /\ intents[1].status = "Expired"
  /\ refunds[1] = 1

\* C20: auto_cleanup can be called by anyone: for every caller and every
\* value of the intent counter (0 and the multiples of 100 included) the call
\* passes its authorization checks.
C20_AutoCleanupOpenToAll ==
  \A a \in Accounts : auto_cleanup_ok(a)

\* A step that is a submit_credibility_intent call that returned; last'.id1
\* is the id of the intent it created.
CreateStep == calls' = calls + 1 /\ last'.op = "submit_credibility_intent"

\* C22: every intent created by submit_credibility_intent has reward = stake,
\* stake >= MIN_STAKE, status Pending and deadline > created_at, whatever
\* deadline_minutes was passed (an explicit 0 and the default included).
C22_CreatedIntentWellFormed ==
  [][CreateStep =>
       LET i == intents'[last'.id1]
       IN  /\ last'.id1 \notin DOMAIN intents
           /\ i.reward = i.stake
           /\ i.stake >= MIN_STAKE
           /\ i.status = "Pending"
           /\ i.created_at = now
           /\ i.deadline > i.created_at]_vars

\* C23: identifiers are never reused.  Each counter never decreases and rises
\* by exactly 1 on each create of its family, which is the only change it
\* undergoes; the entity created gets the new counter value as its id, and
\* every id in a store is at most the counter, so the new id differs from every
\* id issued before, pruned or not.
C23_IdsNeverReused ==
  [][/\ intent_counter' \in {intent_counter, intent_counter + 1}
     /\ evaluation_counter' \in {evaluation_counter, evaluation_counter + 1}
     /\ challenge_counter' \in {challenge_counter, challenge_counter + 1}
     /\ \A i \in DOMAIN intents' : i <= intent_counter'
     /\ \A e \in DOMAIN evaluations' : e <= evaluation_counter'
     /\ \A c \in DOMAIN challenges' : c <= challenge_counter'
     /\ DOMAIN intents' \ DOMAIN intents \subseteq {intent_counter + 1}
     /\ DOMAIN evaluations' \ DOMAIN evaluations \subseteq {evaluation_counter + 1}
     /\ DOMAIN challenges' \ DOMAIN challenges \subseteq {challenge_counter + 1}
     /\ (intent_counter' # intent_counter) = CreateStep
     /\ (evaluation_counter' # evaluation_counter)
          = (calls' = calls + 1 /\ last'.op = "submit_evaluation")
     /\ (challenge_counter' # challenge_counter)
          = (calls' = calls + 1 /\ last'.op = "submit_challenge")
     /\ CreateStep => last'.id1 = intent_counter' /\ last'.id1 \in DOMAIN intents'
     /\ (calls' = calls + 1 /\ last'.op = "submit_evaluation")
          => last'.id2 = evaluation_counter' /\ last'.id2 \in DOMAIN evaluations'
     /\ (calls' = calls + 1 /\ last'.op = "submit_challenge")
          => last'.id2 = challenge_counter' /\ last'.id2 \in DOMAIN challenges']_vars

\* An intent is created after the intent with the lower id was pruned.
C23_Witness ==
  /\ last.op = "submit_credibility_intent"
  /\ last.id1 = 2
  /\ DOMAIN intents = {2}
  /\ intent_counter = 2

\* C29: a solver's history is never reset.  Across every step, a repeated
\* register_solver call included, every solver on record stays on record and
\* its total_evaluations, successful_evaluations, total_challenges_received,
\* total_rewards_earned and total_stakes_lost do not decrease.
C29_SolverHistoryKept ==
  [][\A a \in DOMAIN solvers :
       /\ a \in DOMAIN solvers'
       /\ solvers'[a].total_evaluations >= solvers[a].total_evaluations
       /\ solvers'[a].successful_evaluations >= solvers[a].successful_evaluations
       /\ solvers'[a].total_challenges_received >= solvers[a].total_challenges_received
       /\ solvers'[a].total_rewards_earned >= solvers[a].total_rewards_earned
       /\ solvers'[a].total_stakes_lost >= solvers[a].total_stakes_lost]_vars

\* C30: the challenge window and the finalize window are disjoint.  In every
\* reachable state no evaluation is admissible both for submit_challenge (with
\* any deposit and any sources) and for finalize_evaluation_reward, and no
\* evaluation that was finalized with a reward is the target of a challenge.
C30_WindowsDisjoint ==
  /\ \A e \in DOMAIN evaluations, d \in ChallengeDeposits, n \in SourceCounts :
       ~(submit_challenge_ok(d, e, n) /\ finalize_ok(e))
  /\ \A c \in DOMAIN challenges : challenges[c].evaluation_id \notin DOMAIN finalizes

\* At the challenge deadline itself an evaluation can still be challenged and
\* cannot be finalized, while another evaluation has been challenged.
C30_Witness ==
  /\ \E e \in DOMAIN evaluations :
       /\ now = evaluations[e].submitted_at + CHALLENGE_PERIOD
       /\ \E d \in ChallengeDeposits, n \in SourceCounts : submit_challenge_ok(d, e, n)
       /\ ~finalize_ok(e)
  /\ \E c \in DOMAIN challenges : evaluations[challenges[c].evaluation_id].status = "Challenged"

\* The three stores keep every entry they hold.
NothingPruned ==
  /\ DOMAIN intents \subseteq DOMAIN intents'
  /\ DOMAIN evaluations \subseteq DOMAIN evaluations'
  /\ DOMAIN challenges \subseteq DOMAIN challenges'

\* C21: authorization.  No step that is a settle_dispute,
\* distribute_performance_rewards or cleanup_old_data call that returned is
\* the effect of a call by an account other than the owner, and no call of
\* such an account through auto_cleanup or batch_process_expired_and_cleanup
\* prunes anything; every complete_intent_execution(intent, evaluation) call
\* that returns names an evaluation of that intent and is not the effect of a
\* call by an account other than the solver recorded on the evaluation.  (A
\* call that does not return changes nothing: C13.)
C21_Authorization ==
  [][(calls' = calls + 1) =>
       /\ last'.op = "settle_dispute" =>
            \A a \in Accounts \ {Owner} :
              ~SettleDispute(a, last'.id1, last'.id2, last'.winner)
       /\ last'.op = "distribute_performance_rewards" =>
            \A a \in Accounts \ {Owner} : ~DistributePerformanceRewards(a, last'.id1)
       /\ last'.op = "cleanup_old_data" =>
            \A a \in Accounts \ {Owner}, r \in RetentionDays : ~CleanupOldData(a, r)
       /\ last'.op = "auto_cleanup" =>
            \A a \in Accounts \ {Owner} : AutoCleanup(a) => NothingPruned
       /\ last'.op = "batch_process_expired_and_cleanup" =>
            \A a \in Accounts \ {Owner}, m \in MaxOperations :
              BatchProcessExpiredAndCleanup(a, m) => NothingPruned
       /\ last'.op = "complete_intent_execution" =>
            /\ last'.id2 \in DOMAIN evaluations
            /\ evaluations[last'.id2].intent_id = last'.id1
            /\ \A a \in Accounts \ {evaluations[last'.id2].solver} :
                 ~CompleteIntentExecution(a, last'.id1, last'.id2)]_vars

\* The owner has settled a dispute that only the owner could settle, and the
\* intent can be completed by the solver of its evaluation and by nobody else.
C21_Witness ==
  /\ last.op = "settle_dispute"
  /\ settle_dispute_ok(Owner, last.id1, last.id2, last.winner)
  /\ \A a \in Accounts \ {Owner} : ~settle_dispute_ok(a, last.id1, last.id2, last.winner)
  /\ \E i \in DOMAIN intents, e \in DOMAIN evaluations :
       /\ complete_intent_ok(evaluations[e].solver, i, e)
       /\ \A a \in Accounts \ {evaluations[e].solver} : ~complete_intent_ok(a, i, e)

\* A step that is a distribute_performance_rewards call that returned;
\* last'.id1 is its total_reward_pool.
DistributeStep == calls' = calls + 1 /\ last'.op = "distribute_performance_rewards"

\* C24: distribute_performance_rewards(pool) pays only solvers that are active
\* with total_evaluations > 0, each floor(score / sum of scores * pool), in
\* total never more than pool; it pays nothing when the sum of the scores is
\* zero or no solver is eligible; each solver's total_rewards_earned grows by
\* exactly what it was paid.
C24_DistributeShares ==
  [][DistributeStep =>
       LET pool == last'.id1
           S == {a \in DOMAIN solvers : solvers[a].is_active /\ solvers[a].total_evaluations > 0}
           sum == total_weighted_score(solvers, S)
           share(a) == IF a \notin S \/ sum[1] = 0 THEN 0
                       ELSE LET x == RMul(RDiv(calculate_weighted_performance_score(solvers[a]),
                                               sum), RInt(pool))
                            IN  x[1] \div x[2]
       IN  /\ \A k \in 1..Len(last'.transfers) : last'.transfers[k].to \in S
           /\ \A a \in Accounts : Received(last'.transfers, a) = share(a)
           /\ SumAmounts(last'.transfers) <= pool
           /\ (S = {} \/ sum[1] = 0) => last'.transfers = <<>>
           /\ \A a \in DOMAIN solvers :
                solvers'[a].total_rewards_earned
                  = solvers[a].total_rewards_earned + Received(last'.transfers, a)]_vars

\* C26: settle_dispute returns only when the challenge it names was submitted
\* against the evaluation it names.
C26_SettlePairsMatch ==
  [][SettleStep => challenges[last'.id2].evaluation_id = last'.id1]_vars

RECURSIVE SumSamples(_, _)
\* The sum over the evaluations S of the sample an update records: the
\* execution time (k = 1), the confidence (k = 2) or the source count (k = 3).
SumSamples(S, k) ==
  IF S = {} THEN <<0, 1>>
  ELSE LET e == CHOOSE x \in S : TRUE
           sample == CASE k = 1 -> RInt(evaluations[e].execution_time)
                       [] k = 2 -> evaluations[e].confidence
                       [] k = 3 -> RInt(evaluations[e].n_sources)
       IN  RAdd(sample, SumSamples(S \ {e}, k))

\* C25: running averages are true running means.  While no dispute has been
\* settled, the samples recorded for a solver are those of its finalized
\* evaluations: after each finalize_evaluation_reward the solver's
\* average_execution_time, average_confidence_score and average_source_count
\* are the arithmetic means of the samples of its evaluations finalized so far.
C25_RunningMeans ==
  [][(FinalizeStep /\ settles = EmptyMap) =>
       LET s == evaluations[last'.id1].solver
           done == {e \in DOMAIN evaluations' :
                      evaluations'[e].solver = s /\ e \in DOMAIN finalizes'}
           n == RInt(Cardinality(done))
       IN  /\ solvers'[s].average_execution_time = RDiv(SumSamples(done, 1), n)
           /\ solvers'[s].average_confidence_score = RDiv(SumSamples(done, 2), n)
           /\ solvers'[s].average_source_count = RDiv(SumSamples(done, 3), n)]_vars

\* An intent in a terminal status.
Terminal(i) == i \in DOMAIN intents /\ intents[i].status \in {"Completed", "Settled", "Expired"}

\* C27: no intent is stuck.  Among callers that keep calling whatever can
\* change something, every intent that is Pending or InProgress, one that
\* accept_intent moved to InProgress before any evaluation included,
\* eventually reaches a terminal status (Completed, Settled or Expired).
C27_NoIntentStuck ==
  \A i \in 1..MaxLiveIntents :
    (i \in DOMAIN intents /\ intents[i].status \in {"Pending", "InProgress"}) ~> Terminal(i)

\* The stake of the intent has been transferred: refunded by the sweeper or
\* paid with the reward of a finalized evaluation of the intent.
StakePaidOut(i) ==
  \/ i \in DOMAIN refunds
  \/ \E e \in DOMAIN finalizes : e \in DOMAIN evaluations /\ evaluations[e].intent_id = i

\* C28: no escrowed intent stake is locked forever.  Among callers that keep
\* calling whatever can change something, the stake of every intent is
\* eventually refunded to the initiator by the sweeper or paid to a solver by
\* finalize_evaluation_reward.
C28_NoStakeLocked ==
  \A i \in 1..MaxLiveIntents :
    (i \in DOMAIN intents /\ ~StakePaidOut(i)) ~> StakePaidOut(i)

\* The evaluations whose parent is the intent i.
EvaluationsOf(i) == {e \in DOMAIN evaluations : evaluations[e].intent_id = i}

\* The intent i is admissible for submit_evaluation by some caller now.
Admissible(i) ==
  \E a \in Accounts, s \in EvaluationDeposits, c \in Confidences, n \in SourceCounts :
    submit_evaluation_ok(a, s, i, c, n)

\* C31: an intent that has an evaluation is never expired or refunded by the
\* sweeper.  No intent with status Expired, and no intent the sweeper has
\* refunded, is the parent of an evaluation; no intent is at once admissible
\* for submit_evaluation and eligible for the sweep; and a dispute that has
\* just been settled is about an evaluation whose parent is not Expired.
C31_NoExpiredParent ==
  /\ \A i \in DOMAIN intents : intents[i].status = "Expired" => EvaluationsOf(i) = {}
  /\ \A i \in DOMAIN refunds : EvaluationsOf(i) = {}
  /\ \A i \in DOMAIN intents : ~(Admissible(i) /\ i \in expired_intent_ids(now))
  /\ \A e \in DOMAIN evaluations :
       (last.op = "settle_dispute" /\ last.id1 = e /\ evaluations[e].intent_id \in DOMAIN intents)
         => intents[evaluations[e].intent_id].status # "Expired"

\* The sweeper has just run past the deadline of an intent that has an
\* evaluation: it expired another intent and left that one InProgress.
C31_Witness ==
  /\ last.op = "process_expired_intents"
  /\ last.id1 >= 1
  /\ \E i \in DOMAIN intents :
       /\ intents[i].status = "InProgress"
       /\ intents[i].deadline < last.at
       /\ EvaluationsOf(i) # {}

\* C32: the evaluation reference of an intent is live.  Every intent that is
\* Pending or InProgress and has an evaluation reference (0 is no reference)
\* names an evaluation that is in the store and whose intent id is that
\* intent: cleanup never removes an evaluation such an intent still needs for
\* complete_intent_execution.
C32_EvaluationReferenceLive ==
  \A i \in DOMAIN intents :
    (intents[i].status \in {"Pending", "InProgress"} /\ intents[i].evaluation_hash # 0)
      => /\ intents[i].evaluation_hash \in DOMAIN evaluations
         /\ evaluations[intents[i].evaluation_hash].intent_id = i
====
